---- MODULE Spec2Model ----
(***************************************************************************)
(* Model of unicorn/engine/engine.py: the Unicorn engine process.          *)
(*                                                                         *)
(* main() parses the command line, constructs a _ModelRunner (which        *)
(* configures an OPF model and an _Anomalizer) and runs the pump: a        *)
(* generator reads one line of stdin at a time, each row goes through      *)
(* _computeAnomalyLikelihood and _emitOutputMessage.  Any Exception        *)
(* reaches main's except clause, which logs, writes a JSON error object    *)
(* to stderr and lets the exception propagate.                             *)
(*                                                                         *)
(* Two specifications:                                                     *)
(*   Spec      the whole process, from main() to exit;                     *)
(*   SpecUnit  _Anomalizer.process and _ModelRunner._emitOutputMessage     *)
(*             called directly, with arguments from bounded sets.          *)
(***************************************************************************)
EXTENDS Integers, Sequences, FiniteSets

VARIABLES
  pc,           \* position of the process: parseArgs, init, run, body, except, exited, unit
  argv,         \* the command line: [modelId, stats, positional]
  options,      \* the _Options returned by _parseArgs
  source,       \* the lines the producer supplies on sys.stdin before closing it
  stdin,        \* the lines not yet read from sys.stdin
  nRead,        \* number of lines taken from sys.stdin
  inputRow,     \* the row the generator yielded last
  rowIndex,     \* enumerate()'s index of the row yielded last, -1 before the first
  model,        \* self._model: "unset", "None" or "handle"
  anomalizer,   \* self._anomalizer: "unset" or "created"
  buffer,       \* the scores held by the _Anomalizer instance
  likelihood,   \* the value _Anomalizer.process returned last
  stdout,       \* the messages written to sys.stdout
  flushed,      \* how many of them have been flushed
  stderr,       \* what was written to sys.stderr
  log,          \* what was logged through g_log
  exc,          \* the exception in flight, "none" if none
  exitStatus,   \* the process's exit status, -1 while it runs
  events,       \* history: the calls made so far, in order
  scored,       \* history: the raw scores handed to _Anomalizer.process, in order
  returned      \* history: the values _Anomalizer.process returned, in order

vars == <<pc, argv, options, source, stdin, nRead, inputRow, rowIndex, model,
          anomalizer, buffer, likelihood, stdout, flushed, stderr, log, exc,
          exitStatus, events, scored, returned>>

----------------------------------------------------------------------------
(* Bounds of the model *)

\* longest input stream, in lines
MaxLines == 2
\* most candidates the parameter-selection routine returns
MaxCandidates == 2
\* raw anomaly scores are k / RawScale for k in 0..RawScale
RawScale == 2
\* most direct calls of process / _emitOutputMessage in SpecUnit
MaxCalls == 3
\* the window capacity W the bounded-memory property is stated for
WindowCapacity == 2
\* the minimum calibration count N_min the cold-start property is stated for
MinCalibration == 3

----------------------------------------------------------------------------
(* Values *)

SeqsUpTo(S, n) == UNION {[1..k -> S] : k \in 0..n}

Min(a, b) == IF a < b THEN a ELSE b

\* Python's None, as a value process may return; a float n is
\* [tag |-> "float", val |-> n]
NoneValue == [tag |-> "None"]

RawScores == 0..RawScale

\* the lines the input stream may hold: two well-formed records, a blank line,
\* a line that is not JSON, and a JSON array of the wrong length
InputLines == {"[1000, 5.0]\n", "[1060, 5.1]\n", "\n", "oops\n", "[1000]\n"}

WellFormedLines == {"[1000, 5.0]\n", "[1060, 5.1]\n"}

\* the --stats option values: absent/empty, not JSON, failing the schema, and
\* three that pass it
StatsArgs == {"", "{bad", "{}", "{\"min\":0,\"max\":10}", "{\"min\":5,\"max\":1}",
              "{\"min\":0,\"max\":100,\"minResolution\":1}"}

Argvs == [modelId : {"", "m1"}, stats : StatsArgs, positional : {0, 1}]

NoOptions == [modelId |-> "", stats |-> [valid |-> FALSE]]

NoRow == <<>>

Event(op, idx) == [op |-> op, idx |-> idx]

RECURSIVE CountOp(_, _)
CountOp(es, op) ==
  IF es = <<>> THEN 0
  ELSE (IF Head(es).op = op THEN 1 ELSE 0) + CountOp(Tail(es), op)

----------------------------------------------------------------------------
(* _parseArgs *)

\* json.loads of the --stats option value (line 103): the parsed object, or
\* ValueError for text that is not JSON
JsonLoadsStats(s) ==
  CASE s = "{bad" -> [raised |-> "ValueError", hasMin |-> FALSE, min |-> 0,
                      hasMax |-> FALSE, max |-> 0, hasMinRes |-> FALSE, minRes |-> 0]
    [] s = "{}" -> [raised |-> "none", hasMin |-> FALSE, min |-> 0,
                    hasMax |-> FALSE, max |-> 0, hasMinRes |-> FALSE, minRes |-> 0]
    [] s = "{\"min\":0,\"max\":10}" ->
                   [raised |-> "none", hasMin |-> TRUE, min |-> 0,
                    hasMax |-> TRUE, max |-> 10, hasMinRes |-> FALSE, minRes |-> 0]
    [] s = "{\"min\":5,\"max\":1}" ->
                   [raised |-> "none", hasMin |-> TRUE, min |-> 5,
                    hasMax |-> TRUE, max |-> 1, hasMinRes |-> FALSE, minRes |-> 0]
    [] OTHER -> [raised |-> "none", hasMin |-> TRUE, min |-> 0,
                 hasMax |-> TRUE, max |-> 100, hasMinRes |-> TRUE, minRes |-> 1]

\* validictory.validate against stats_schema.json (lines 105-110): min and max
\* are required numbers, minResolution is optional
ValidateStats(stats) == stats.hasMin /\ stats.hasMax

\* _parseArgs (lines 66-113): "parserError" is parser.error, which writes the
\* usage text to stderr and raises SystemExit(2); "raise" is an Exception
_parseArgs(a) ==
  IF a.positional # 0 THEN [kind |-> "parserError", exc |-> "SystemExit", options |-> NoOptions]
  ELSE IF a.modelId = "" THEN [kind |-> "parserError", exc |-> "SystemExit", options |-> NoOptions]
  ELSE IF a.stats = "" THEN [kind |-> "parserError", exc |-> "SystemExit", options |-> NoOptions]
  ELSE LET stats == JsonLoadsStats(a.stats) IN
    IF stats.raised # "none"
    THEN [kind |-> "raise", exc |-> stats.raised, options |-> NoOptions]
    ELSE IF ~ValidateStats(stats)
    THEN [kind |-> "parserError", exc |-> "SystemExit", options |-> NoOptions]
    ELSE [kind |-> "ok", exc |-> "none",
          options |-> [modelId |-> a.modelId,
                       stats |-> [valid |-> TRUE, min |-> stats.min, max |-> stats.max,
                                  hasMinRes |-> stats.hasMinRes, minRes |-> stats.minRes]]]

UsageText == [kind |-> "usage", errorText |-> "", diagnosticInfo |-> ""]

\* main, line 262: the call of _parseArgs.  SystemExit is not an Exception, so
\* the except clause of line 266 does not catch it: the process exits with
\* status 2 after optparse wrote its usage text.
ParseArgs ==
  /\ pc = "parseArgs"
  /\ LET r == _parseArgs(argv) IN
       /\ options' = r.options
       /\ pc' = IF r.kind = "ok" THEN "init"
                ELSE IF r.kind = "raise" THEN "except" ELSE "exited"
       /\ exc' = r.exc
       /\ stderr' = IF r.kind = "parserError" THEN Append(stderr, UsageText) ELSE stderr
       /\ exitStatus' = IF r.kind = "parserError" THEN 2 ELSE exitStatus
       /\ events' = Append(events, Event("parseArgs", 0))
  /\ UNCHANGED <<argv, source, stdin, nRead, inputRow, rowIndex, model, anomalizer,
                 buffer, likelihood, stdout, flushed, log, scored, returned>>

----------------------------------------------------------------------------
(* _ModelRunner.__init__ and _createModel *)

\* getScalarMetricWithTimeOfDayParams: the parameter-selection routine maps
\* (minVal, maxVal, minResolution) to a list of n candidate configurations,
\* best first; candidate i is named by its rank
getScalarMetricWithTimeOfDayParams(minVal, maxVal, hasMinRes, minRes, n) ==
  [i \in 1..n |-> [modelConfig |-> i, inferenceArgs |-> i,
                   minVal |-> minVal, maxVal |-> maxVal]]

\* _createModel (lines 169-187): possibleModels[0] raises IndexError on an empty
\* list; ModelFactory.create may raise; the model is built and learning and
\* inference are enabled on it, and then the method ends without a return
\* statement, so its value is None.  "built" is the local variable model.
_createModel(stats, n, createOk) ==
  LET possibleModels == getScalarMetricWithTimeOfDayParams(
                          stats.min, stats.max, stats.hasMinRes, stats.minRes, n)
  IN IF Len(possibleModels) = 0
     THEN [raised |-> "IndexError", value |-> "unset", built |-> <<>>,
           calls |-> <<Event("createModel", 0)>>]
     ELSE LET swarmParams == possibleModels[1] IN
       IF ~createOk
       THEN [raised |-> "Exception", value |-> "unset", built |-> <<>>,
             calls |-> <<Event("createModel", 0)>>]
       ELSE [raised |-> "none", value |-> "None",
             built |-> <<[config |-> swarmParams.modelConfig, learning |-> TRUE,
                          inference |-> TRUE]>>,
             calls |-> <<Event("createModel", 0), Event("createModelDone", 0)>>]

\* a constructor that leaves the model to be created later
ModelRunner__init__lazy(stats, n, createOk) ==
  [raised |-> "none", model |-> "None", anomalizer |-> "created", calls |-> <<>>]

\* _ModelRunner.__init__ (lines 159-166): self._model is what _createModel
\* returned; the _Anomalizer is created after it
ModelRunner__init__(stats, n, createOk) ==
  LET m == _createModel(stats, n, createOk) IN
    IF m.raised # "none"
    THEN [raised |-> m.raised, model |-> "unset", anomalizer |-> "unset", calls |-> m.calls]
    ELSE [raised |-> "none", model |-> m.value, anomalizer |-> "created", calls |-> m.calls]

\* main, line 264: the construction of the _ModelRunner
ModelRunnerInit ==
  /\ pc = "init"
  /\ \E n \in 0..MaxCandidates, createOk \in BOOLEAN :
       LET r == ModelRunner__init__(options.stats, n, createOk) IN
         /\ model' = r.model
         /\ anomalizer' = r.anomalizer
         /\ exc' = r.raised
         /\ pc' = IF r.raised = "none" THEN "run" ELSE "except"
         /\ events' = events \o r.calls
  /\ UNCHANGED <<argv, source, options, stdin, nRead, inputRow, rowIndex, buffer,
                 likelihood, stdout, flushed, stderr, log, exitStatus, scored, returned>>

----------------------------------------------------------------------------
(* _readInputMessages *)

\* a readline that drains the stream into a read-ahead buffer
readline_readahead(in) ==
  IF in = <<>> THEN [message |-> "", rest |-> <<>>, taken |-> 0]
  ELSE [message |-> Head(in), rest |-> <<>>, taken |-> Len(in)]

\* a readline whose result has lost its line terminator
readline_stripped(in) ==
  IF in = <<>> THEN [message |-> "", rest |-> <<>>, taken |-> 0]
  ELSE [message |-> IF Head(in) = "\n" THEN "" ELSE Head(in),
        rest |-> Tail(in), taken |-> 1]

\* sys.stdin.readline() (line 200): the next line with its terminator, or the
\* empty string once the stream is closed
readline(in) ==
  IF in = <<>> THEN [message |-> "", rest |-> <<>>, taken |-> 0]
  ELSE [message |-> Head(in), rest |-> Tail(in), taken |-> 1]

\* json.loads of an input line (line 203): the decoded array, 5.0 as 50 tenths,
\* or ValueError for a line that holds no JSON value
JsonLoads(message) ==
  CASE message = "[1000, 5.0]\n" -> [raised |-> "none", value |-> <<1000, 50>>]
    [] message = "[1060, 5.1]\n" -> [raised |-> "none", value |-> <<1060, 51>>]
    [] message = "[1000]\n" -> [raised |-> "none", value |-> <<1000>>]
    [] OTHER -> [raised |-> "ValueError", value |-> <<>>]

\* datetime.utcfromtimestamp (line 204)
utcfromtimestamp(timestamp) == [datetime |-> timestamp]

\* a generator that skips a line it cannot decode and goes on to the next
RECURSIVE readInputMessage_skip(_)
readInputMessage_skip(in) ==
  IF in = <<>>
  THEN [kind |-> "break", exc |-> "none", row |-> NoRow, rest |-> <<>>, taken |-> 0]
  ELSE LET j == JsonLoads(Head(in)) IN
    IF j.raised # "none" \/ Len(j.value) # 2
    THEN LET n == readInputMessage_skip(Tail(in)) IN [n EXCEPT !.taken = @ + 1]
    ELSE [kind |-> "yield", exc |-> "none",
          row |-> <<utcfromtimestamp(j.value[1]), j.value[2]>>,
          rest |-> Tail(in), taken |-> 1]

\* one step of the generator (lines 199-207): "yield" a row, "break" at the end
\* of the stream, or "raise" from json.loads or from unpacking the two values
readInputMessage(in) ==
  LET r == readline(in) IN
    IF r.message # ""
    THEN LET j == JsonLoads(r.message) IN
      IF j.raised # "none"
      THEN [kind |-> "raise", exc |-> j.raised, row |-> NoRow, rest |-> r.rest, taken |-> r.taken]
      ELSE IF Len(j.value) # 2
      THEN [kind |-> "raise", exc |-> "ValueError", row |-> NoRow, rest |-> r.rest, taken |-> r.taken]
      ELSE [kind |-> "yield", exc |-> "none",
            row |-> <<utcfromtimestamp(j.value[1]), j.value[2]>>,
            rest |-> r.rest, taken |-> r.taken]
    ELSE [kind |-> "break", exc |-> "none", row |-> NoRow, rest |-> r.rest, taken |-> r.taken]

\* run, line 251: the for statement asks the generator for the next row.  At
\* "break" the loop, run and main end and the process exits with status 0.
ReadInputMessage ==
  /\ pc = "run"
  /\ LET r == readInputMessage(stdin) IN
       /\ stdin' = r.rest
       /\ nRead' = nRead + r.taken
       /\ inputRow' = r.row
       /\ exc' = r.exc
       /\ pc' = IF r.kind = "yield" THEN "body"
                ELSE IF r.kind = "raise" THEN "except" ELSE "exited"
       /\ exitStatus' = IF r.kind = "break" THEN 0 ELSE exitStatus
       /\ rowIndex' = IF r.kind = "yield" THEN rowIndex + 1 ELSE rowIndex
       /\ events' = Append(events, Event(IF r.kind = "break" THEN "eof" ELSE "read",
                                          rowIndex + 1))
  /\ UNCHANGED <<argv, source, options, model, anomalizer, buffer, likelihood,
                 stdout, flushed, stderr, log, scored, returned>>

----------------------------------------------------------------------------
(* _Anomalizer, _computeAnomalyLikelihood, _emitOutputMessage *)

\* the names bound in the module's namespace (lines 27-45 and the def and class
\* statements of lines 49, 66, 117, 143, 259)
Globals == {"datetime", "json", "logging", "OptionParser", "pkg_resources", "sys",
            "validictory", "fieldmeta", "ModelFactory",
            "getScalarMetricWithTimeOfDayParams", "g_log", "_Options", "_parseArgs",
            "_Anomalizer", "_ModelRunner", "main"}

\* _Anomalizer.process (lines 129-139): the body is pass, so the call returns
\* None and the instance's buffer is left as it was
process(buf, timestamp, metricValue, rawAnomalyScore) ==
  [result |-> NoneValue, buffer |-> buf]

\* _computeAnomalyLikelihood (lines 223-242).  step is what self._model.run
\* does for this row: [raised, raw].  The global opfModelInputRecordFromSequence
\* is looked up first (NameError if unbound), then run is looked up on
\* self._model (AttributeError on None), then the model is stepped and the raw
\* score handed to the anomalizer.
_computeAnomalyLikelihood(m, buf, row, idx, step) ==
  IF "opfModelInputRecordFromSequence" \notin Globals
  THEN [raised |-> "NameError", result |-> NoneValue, buffer |-> buf,
        calls |-> <<Event("compute", idx)>>]
  ELSE IF m = "None"
  THEN [raised |-> "AttributeError", result |-> NoneValue, buffer |-> buf,
        calls |-> <<Event("compute", idx)>>]
  ELSE IF step.raised # "none"
  THEN [raised |-> step.raised, result |-> NoneValue, buffer |-> buf,
        calls |-> <<Event("compute", idx), Event("step", idx)>>]
  ELSE LET p == process(buf, row[1], row[2], step.raw) IN
    [raised |-> "none", result |-> p.result, buffer |-> p.buffer,
     calls |-> <<Event("compute", idx), Event("step", idx), Event("process", idx)>>]

\* json.dumps([rowIndex, anomalyLikelihood]) followed by "\n" (line 217): None
\* is written as null
OutputMessage(idx, lik) ==
  [rowIndex |-> idx,
   likelihood |-> IF lik.tag = "None" THEN [json |-> "null"]
                  ELSE [json |-> "number", val |-> lik.val]]

\* _emitOutputMessage (lines 210-220): write, then flush; either may raise
_emitOutputMessage(out, fl, idx, lik, writeOk, flushOk) ==
  IF ~writeOk
  THEN [raised |-> "IOError", stdout |-> out, flushed |-> fl, calls |-> <<>>]
  ELSE IF ~flushOk
  THEN [raised |-> "IOError", stdout |-> Append(out, OutputMessage(idx, lik)),
        flushed |-> fl, calls |-> <<Event("write", idx)>>]
  ELSE [raised |-> "none", stdout |-> Append(out, OutputMessage(idx, lik)),
        flushed |-> Len(out) + 1, calls |-> <<Event("write", idx), Event("flush", idx)>>]

\* the body of run's for statement (lines 252-255)
runBody(m, buf, out, fl, row, idx, step, writeOk, flushOk) ==
  LET c == _computeAnomalyLikelihood(m, buf, row, idx, step) IN
    IF c.raised # "none"
    THEN [raised |-> c.raised, result |-> c.result, buffer |-> c.buffer,
          stdout |-> out, flushed |-> fl,
          calls |-> Append(c.calls, Event("computeFailed", idx))]
    ELSE LET e == _emitOutputMessage(out, fl, idx, c.result, writeOk, flushOk) IN
      [raised |-> e.raised, result |-> c.result, buffer |-> c.buffer,
       stdout |-> e.stdout, flushed |-> e.flushed,
       calls |-> IF e.raised # "none"
                 THEN c.calls \o e.calls \o <<Event("emitFailed", idx)>>
                 ELSE c.calls \o e.calls]

\* a loop that goes on to the next row whatever the body did
runNextPc_continue(raised) == "run"

\* run has no try statement (lines 245-255): an exception raised in the body
\* leaves the loop, run and the try block of main
runNextPc(raised) == IF raised = "none" THEN "run" ELSE "except"

StepOutcomes ==
  {[raised |-> "none", raw |-> r] : r \in RawScores}
    \cup {[raised |-> "ModelError", raw |-> 0]}

\* run, lines 252-255: one row through the body of the loop
RunBody ==
  /\ pc = "body"
  /\ \E step \in StepOutcomes, writeOk \in BOOLEAN, flushOk \in BOOLEAN :
       LET r == runBody(model, buffer, stdout, flushed, inputRow, rowIndex,
                        step, writeOk, flushOk) IN
         /\ buffer' = r.buffer
         /\ likelihood' = r.result
         /\ stdout' = r.stdout
         /\ flushed' = r.flushed
         /\ exc' = r.raised
         /\ pc' = runNextPc(r.raised)
         /\ events' = events \o r.calls
         /\ scored' = IF CountOp(r.calls, "process") > 0 THEN Append(scored, step.raw)
                       ELSE scored
         /\ returned' = IF CountOp(r.calls, "process") > 0 THEN Append(returned, r.result)
                         ELSE returned
  /\ UNCHANGED <<argv, source, options, stdin, nRead, inputRow, rowIndex, model,
                 anomalizer, stderr, log, exitStatus>>

----------------------------------------------------------------------------
(* main's except clause *)

\* the error object of lines 274-279
ErrorMessage(ex) == [kind |-> "errorObject", errorText |-> ex, diagnosticInfo |-> ex]

\* an except clause that reports nothing
emitError_silent(err, ex, ok) == err

\* sys.stderr.write(errorMessage) (line 282)
emitError(err, ex, ok) == IF ok THEN Append(err, ErrorMessage(ex)) ELSE err

\* an except clause in which a failure of the stderr write replaces the
\* exception being handled
propagated_masked(ex, ok) == IF ok THEN ex ELSE "IOError"

\* the exception that leaves main (lines 269-285): the bare raise re-raises the
\* one being handled; a failure of the stderr write is caught inside the
\* finally clause and does not replace it
propagated(ex, ok) == ex

\* main, lines 266-285: log, re-raise; the finally clause writes the error
\* object to stderr, and logs if that write raises; the original exception
\* then leaves main and the interpreter exits with status 1
ExceptHandler ==
  /\ pc = "except"
  /\ \E stderrOk \in BOOLEAN :
       /\ stderr' = emitError(stderr, exc, stderrOk)
       /\ log' = IF stderrOk THEN Append(log, "Engine failed")
                 ELSE log \o <<"Engine failed", "Failed to emit error message to stderr">>
       /\ exc' = propagated(exc, stderrOk)
  /\ pc' = "exited"
  /\ exitStatus' = 1
  /\ events' = Append(events, Event("except", 0))
  /\ UNCHANGED <<argv, source, options, stdin, nRead, inputRow, rowIndex, model,
                 anomalizer, buffer, likelihood, stdout, flushed, scored, returned>>

----------------------------------------------------------------------------
(* The process *)

Init ==
  /\ pc = "parseArgs"
  /\ argv \in Argvs
  /\ options = NoOptions
  /\ source \in SeqsUpTo(InputLines, MaxLines)
  /\ stdin = source
  /\ nRead = 0
  /\ inputRow = NoRow
  /\ rowIndex = -1
  /\ model = "unset"
  /\ anomalizer = "unset"
  /\ buffer = <<>>
  /\ likelihood = NoneValue
  /\ stdout = <<>>
  /\ flushed = 0
  /\ stderr = <<>>
  /\ log = <<>>
  /\ exc = "none"
  /\ exitStatus = -1
  /\ events = <<>>
  /\ scored = <<>>
  /\ returned = <<>>

Next == ParseArgs \/ ModelRunnerInit \/ ReadInputMessage \/ RunBody \/ ExceptHandler

Spec == Init /\ [][Next]_vars

----------------------------------------------------------------------------
(* _Anomalizer.process and _emitOutputMessage called directly *)

Timestamps == {1000, 1060}

MetricValues == {50, 51}

InitUnit ==
  /\ pc = "unit"
  /\ argv = [modelId |-> "m1", stats |-> "{\"min\":0,\"max\":10}", positional |-> 0]
  /\ options = NoOptions
  /\ source = <<>>
  /\ stdin = <<>>
  /\ nRead = 0
  /\ inputRow = NoRow
  /\ rowIndex = -1
  /\ model = "unset"
  /\ anomalizer = "created"
  /\ buffer = <<>>
  /\ likelihood = NoneValue
  /\ stdout = <<>>
  /\ flushed = 0
  /\ stderr = <<>>
  /\ log = <<>>
  /\ exc = "none"
  /\ exitStatus = -1
  /\ events = <<>>
  /\ scored = <<>>
  /\ returned = <<>>

\* _Anomalizer().process(timestamp, metricValue, rawAnomalyScore) for the next
\* sample
UnitProcess ==
  /\ pc = "unit"
  /\ Len(scored) < MaxCalls
  /\ \E ts \in Timestamps, v \in MetricValues, raw \in RawScores :
       LET p == process(buffer, utcfromtimestamp(ts), v, raw) IN
         /\ buffer' = p.buffer
         /\ likelihood' = p.result
         /\ inputRow' = <<utcfromtimestamp(ts), v>>
         /\ scored' = Append(scored, raw)
         /\ returned' = Append(returned, p.result)
  /\ rowIndex' = rowIndex + 1
  /\ events' = Append(events, Event("process", rowIndex + 1))
  /\ UNCHANGED <<pc, argv, source, options, stdin, nRead, model, anomalizer, stdout,
                 flushed, stderr, log, exc, exitStatus>>

\* _ModelRunner._emitOutputMessage(rowIndex, anomalyLikelihood) with the value
\* process just returned for the sample; a call that raises ends the sequence
UnitEmit ==
  /\ pc = "unit"
  /\ events # <<>>
  /\ events[Len(events)].op = "process"
  /\ \E writeOk \in BOOLEAN, flushOk \in BOOLEAN :
       LET e == _emitOutputMessage(stdout, flushed, rowIndex, likelihood,
                                   writeOk, flushOk) IN
         /\ stdout' = e.stdout
         /\ flushed' = e.flushed
         /\ exc' = e.raised
         /\ pc' = IF e.raised = "none" THEN "unit" ELSE "exited"
         /\ events' = IF e.raised = "none" THEN events \o e.calls
                      ELSE events \o e.calls \o <<Event("emitFailed", rowIndex)>>
  /\ UNCHANGED <<argv, source, options, stdin, nRead, inputRow, rowIndex, model,
                 anomalizer, buffer, likelihood, stderr, log, exitStatus, scored, returned>>

NextUnit == UnitProcess \/ UnitEmit

SpecUnit == InitUnit /\ [][NextUnit]_vars

----------------------------------------------------------------------------
(* Properties *)

\* the process got as far as run() with its runner constructed
Streaming == CountOp(events, "createModelDone") = 1

\* every line the producer supplies is a well-formed sample
AllWellFormed == \A i \in 1..Len(source) : source[i] \in WellFormedLines

ErrorObjects == {i \in 1..Len(stderr) : stderr[i].kind = "errorObject"}

\* C1: for N well-formed samples followed by end-of-stream, run emits exactly N
\* output records, with sequenceIndex 0, 1, ..., N-1 in that order, each
\* flushed: once the process has ended, stdout holds those N records.
C1_OrderPreserved ==
  (pc = "exited" /\ Streaming /\ AllWellFormed) =>
    /\ Len(stdout) = Len(source)
    /\ flushed = Len(source)
    /\ \A k \in 1..Len(stdout) : stdout[k].rowIndex = k - 1

\* C2: when the source closes after finitely many well-formed samples the pump
\* ends cleanly (exit status 0, no exception, nothing on the error channel),
\* and the pump never takes more samples than the source supplied.
C2_CleanTermination ==
  /\ nRead <= Len(source)
  /\ (pc = "exited" /\ Streaming /\ AllWellFormed) =>
       (exitStatus = 0 /\ exc = "none" /\ stderr = <<>>)

\* C3: if the evaluation of the sample at position k fails, the pump stops:
\* sample k is evaluated once only, nothing is read, evaluated or written
\* after the failure, no record with sequenceIndex >= k is on stdout, and the
\* records 0..k-1 are.
C3_StopsOnEvaluationFailure ==
  \A i \in 1..Len(events) :
    events[i].op = "computeFailed" =>
      LET k == events[i].idx IN
        /\ \A j \in (i + 1)..Len(events) : events[j].op = "except"
        /\ Cardinality({j \in 1..Len(events) :
                          events[j].op = "compute" /\ events[j].idx = k}) = 1
        /\ nRead = k + 1
        /\ pc \in {"except", "exited"}
        /\ \A m \in 1..Len(stdout) : stdout[m].rowIndex < k
        /\ \A r \in 0..(k - 1) : \E m \in 1..Len(stdout) : stdout[m].rowIndex = r

\* C3 witness: the evaluation of a sample failed, the process has ended, and
\* lines of the input are still unread
C3_Witness ==
  /\ pc = "exited"
  /\ CountOp(events, "computeFailed") = 1
  /\ stdin # <<>>

\* C4 as stated: every unrecoverable error, at startup or while streaming,
\* puts exactly one error object on the error channel and ends the process
\* with a non-zero status; a normal run writes no error object.
C4_OneErrorObjectPerFailure ==
  pc = "exited" =>
    IF exc = "none"
    THEN exitStatus = 0 /\ ErrorObjects = {}
    ELSE exitStatus # 0 /\ Cardinality(ErrorObjects) = 1

\* C4 amended: an error raised as an Exception (--stats that is not JSON, model
\* bootstrap, streaming) ends the process with status 1 and puts exactly one
\* error object {errorText, diagnosticInfo} on the error channel, unless that
\* write itself fails, which is logged; an error reported through parser.error
\* (bad arguments, schema validation) ends the process with status 2 after the
\* usage text, with no error object; a normal run writes no error object and
\* ends with status 0.
C4_ErrorObjectForExceptions ==
  pc = "exited" =>
    IF exc = "none"
    THEN exitStatus = 0 /\ stderr = <<>>
    ELSE IF exc = "SystemExit"
    THEN exitStatus = 2 /\ stderr = <<UsageText>>
    ELSE /\ exitStatus = 1
         /\ \/ stderr = <<ErrorMessage(exc)>>
            \/ /\ stderr = <<>>
               /\ \E i \in 1..Len(log) :
                    log[i] = "Failed to emit error message to stderr"

\* C4 witness: an exception reached main, its error object is on stderr and
\* the process has ended
C4_Witness ==
  /\ pc = "exited"
  /\ exc \notin {"none", "SystemExit"}
  /\ Cardinality(ErrorObjects) = 1

\* C5: _createModel runs at most once, and whenever a line is read from the
\* input it has run exactly once and finished before that read.
C5_ConfiguredOnceBeforeFirstRead ==
  /\ CountOp(events, "createModel") <= 1
  /\ \A i \in 1..Len(events) :
       events[i].op \in {"read", "eof"} =>
         /\ \E j \in 1..(i - 1) : events[j].op = "createModelDone"
         /\ \A j \in i..Len(events) : events[j].op # "createModel"

\* C5 witness: a sample has been read from the input
C5_Witness == nRead >= 1 /\ pc = "body"

\* C6: after a successful _createModel the runner holds a usable model handle,
\* not None.
C6_UsableModelHandle == Streaming => model = "handle"

\* C7: with stats.min > stats.max, and when the configurator returns no
\* candidate, configuration fails before any sample is read: no model, no
\* read, no output record.
C7_ConfigurationRejected ==
  /\ (pc \notin {"parseArgs", "init"} /\ options.stats.valid
        /\ options.stats.min > options.stats.max) =>
       (~Streaming /\ model = "unset" /\ nRead = 0 /\ stdout = <<>>
          /\ exc # "none")
  /\ exc = "IndexError" =>
       (~Streaming /\ model = "unset" /\ nRead = 0 /\ stdout = <<>>)

C9_LikelihoodIsNumber ==
  \A m \in 1..Len(stdout) :
    /\ stdout[m].likelihood.json = "number"
    /\ stdout[m].likelihood.val \in 0..RawScale

\* the last n elements of a sequence
LastN(q, n) == SubSeq(q, Len(q) - n + 1, Len(q))

\* C10: after M calls of process the estimator's window holds exactly
\* min(M, W) scores, the most recent ones in arrival order.
C10_WindowBounded ==
  /\ Len(buffer) = Min(Len(scored), WindowCapacity)
  /\ buffer = LastN(scored, Min(Len(scored), WindowCapacity))

\* C11: cold start: each of the first N_min-1 calls of process returns the same
\* neutral likelihood, a number in [0,1] (0..RawScale in the model's units),
\* whatever raw score it is given.
C11_ColdStartNeutral ==
  \A i \in 1..Min(Len(returned), MinCalibration - 1) :
    /\ returned[i].tag = "float"
    /\ returned[i].val \in 0..RawScale
    /\ returned[i] = returned[1]

\* C12: for each sample consumed, once the loop body is done with it, the pump
\* has performed the model step, then process, then the emission, in that order
\* and once each; process is called only right after the step of the same
\* sample, and the emission only right after its process.
C12_StepProcessEmitInOrder ==
  \A i \in 1..Len(events) :
    /\ (events[i].op = "compute" /\ pc # "body") =>
         LET k == events[i].idx IN
           /\ Len(events) >= i + 3
           /\ events[i + 1] = Event("step", k)
           /\ events[i + 2] = Event("process", k)
           /\ events[i + 3] = Event("write", k)
           /\ \A op \in {"compute", "step", "process", "write"} :
                Cardinality({j \in 1..Len(events) :
                               events[j].op = op /\ events[j].idx = k}) = 1
    /\ events[i].op = "process" =>
         (i > 1 /\ events[i - 1] = Event("step", events[i].idx))
    /\ events[i].op = "write" =>
         (i > 1 /\ events[i - 1] = Event("process", events[i].idx))

\* the line at position k of the input is not a well-formed sample
Malformed(k) == k + 1 <= Len(source) /\ source[k + 1] \notin WellFormedLines

\* what a malformed line at position k, once read, leaves behind: no evaluation
\* of it, nothing read, evaluated or written after it, no record with
\* sequenceIndex >= k
StoppedAt(i, k) ==
  /\ \A j \in 1..Len(events) :
       events[j].op \in {"compute", "step", "process", "write", "flush"}
         => (events[j].idx < k /\ j < i)
  /\ \A j \in (i + 1)..Len(events) : events[j].op = "except"
  /\ nRead = k + 1
  /\ pc \in {"except", "exited"}
  /\ \A m \in 1..Len(stdout) : stdout[m].rowIndex < k

\* C13 as stated: a malformed line at position k is fatal: it is not evaluated,
\* nothing is read or emitted after it, and when the process has ended the
\* error object is on the error channel.
C13_MalformedFatalAndReported ==
  \A i \in 1..Len(events) :
    (events[i].op = "read" /\ Malformed(events[i].idx)) =>
      /\ StoppedAt(i, events[i].idx)
      /\ pc = "exited" => (exitStatus = 1 /\ stderr = <<ErrorMessage("ValueError")>>)

\* C13 amended: a malformed line at position k is fatal: it is not evaluated,
\* nothing is read or emitted after it, the process ends with status 1, and
\* the error object is on the error channel unless the write to that channel
\* itself failed, which is then logged.
C13_MalformedFatal ==
  \A i \in 1..Len(events) :
    (events[i].op = "read" /\ Malformed(events[i].idx)) =>
      /\ StoppedAt(i, events[i].idx)
      /\ exc = "ValueError"
      /\ pc = "exited" =>
           /\ exitStatus = 1
           /\ \/ stderr = <<ErrorMessage("ValueError")>>
              \/ /\ stderr = <<>>
                 /\ \E n \in 1..Len(log) :
                      log[n] = "Failed to emit error message to stderr"

\* C13 witness: a line that is not JSON was read, the process has reported it
\* and ended, and a well-formed sample after it is still unread
C13_Witness ==
  /\ pc = "exited"
  /\ Len(source) = 2
  /\ source[1] = "oops\n"
  /\ source[2] \in WellFormedLines
  /\ stdin = <<source[2]>>
  /\ stderr = <<ErrorMessage("ValueError")>>

\* C15: main swallows no error: handling an exception logs it, leaves that
\* same exception to propagate and ends the process with status 1; when the
\* error object is not written, that failure is logged too.
C15_NothingSwallowed ==
  [][pc = "except" =>
       /\ pc' = "exited"
       /\ exc' = exc
       /\ exitStatus' = 1
       /\ \E n \in (Len(log) + 1)..Len(log') : log'[n] = "Engine failed"
       /\ \/ stderr' = Append(stderr, ErrorMessage(exc))
          \/ /\ stderr' = stderr
             /\ \E n \in (Len(log) + 1)..Len(log') :
                  log'[n] = "Failed to emit error message to stderr"]_vars

\* C15 witness: the write of the error object failed; the failure was logged
\* and the process ended with the original exception
C15_Witness ==
  /\ pc = "exited"
  /\ exc = "NameError"
  /\ exitStatus = 1
  /\ stderr = <<>>
  /\ log = <<"Engine failed", "Failed to emit error message to stderr">>

\* C16: a blank line is not the end of the stream: once read it stops the pump
\* with an error, the status is not 0 and the lines after it stay unread; the
\* end of the stream is seen only when every supplied line has been read.
C16_BlankLineIsNotEndOfStream ==
  /\ \A i \in 1..Len(events) :
       (events[i].op = "read" /\ events[i].idx + 1 <= Len(source)
          /\ source[events[i].idx + 1] = "\n") =>
         /\ StoppedAt(i, events[i].idx)
         /\ exc = "ValueError"
         /\ exitStatus # 0
         /\ CountOp(events, "eof") = 0
  /\ CountOp(events, "eof") > 0 => (stdin = <<>> /\ nRead = Len(source))

\* C16 witness: a blank line was read first, the process ended with an error
\* and the sample after the blank line is still unread
C16_Witness ==
  /\ pc = "exited"
  /\ Len(source) = 2
  /\ source[1] = "\n"
  /\ source[2] \in WellFormedLines
  /\ stdin = <<source[2]>>
  /\ exitStatus = 1

====
